---- MODULE Spec2Model ----
(***************************************************************************)
(* Model of src/main.py: the BTC signal bot.  One cooperative loop that    *)
(* fetches a price, pushes it into a rolling window, scores the window,    *)
(* classifies it (UP / DOWN / None) and sends an alert through a           *)
(* cooldown-and-change gate.                                               *)
(*                                                                         *)
(* Python floats are modelled as exact rationals <<numerator, denominator>>*)
(* in lowest terms (denominator > 0), so the comparisons against the       *)
(* thresholds are those of the real numbers the floats stand for.          *)
(***************************************************************************)
EXTENDS Integers, Sequences, FiniteSets, TLC

VARIABLES
    pc,             \* position of main(): "start", "fetch", "sleep", "backoff", "crashed"
    clock,          \* the wall clock, what time.time() returns when read
    points,         \* the deque of <<timestamp, price>>
    last_alert_ts,  \* gate: time of the last alert, 0 before any
    last_signal,    \* gate: verdict of the last alert, None before any
    now,            \* local of main(): clock reading of the latest successful fetch
    price,          \* local of main(): price of the latest successful fetch
    signal,         \* local of main(): verdict of the latest successful fetch
    sent,           \* messages handed to tg_send by the latest step, in order
    started,        \* number of startup messages handed to tg_send so far
    alerts,         \* history: <<now, verdict>> of every signal message so far
    hist,           \* history: the ticks since the start, while recording
    recording,      \* TRUE while hist is the whole run (no failure, <= MaxHist ticks)
    args,           \* PureSpec: the arguments of a call of a helper on its own
    ret             \* PureSpec: what that call returned

vars == <<pc, clock, points, last_alert_ts, last_signal, now, price, signal,
          sent, started, alerts, hist, recording, args, ret>>

(***************************************************************************)
(* Rational arithmetic                                                     *)
(***************************************************************************)
Abs(x) == IF x < 0 THEN -x ELSE x

RECURSIVE GCD(_, _)
GCD(a, b) == IF b = 0 THEN a ELSE GCD(b, a % b)

Rat(n, d) ==
    LET g == GCD(Abs(n), d)
    IN  <<(IF n < 0 THEN -(Abs(n) \div g) ELSE n \div g), d \div g>>

Zero == Rat(0, 1)
One == Rat(1, 1)

RSub(a, b) == Rat(a[1] * b[2] - b[1] * a[2], a[2] * b[2])
RAdd(a, b) == Rat(a[1] * b[2] + b[1] * a[2], a[2] * b[2])
RMul(a, b) == Rat(a[1] * b[1], a[2] * b[2])
\* a / b for b # 0
RDiv(a, b) ==
    IF b[1] < 0 THEN Rat(-(a[1] * b[2]), a[2] * (-b[1]))
                ELSE Rat(a[1] * b[2], a[2] * b[1])
RAbs(a) == <<Abs(a[1]), a[2]>>
RLt(a, b) == a[1] * b[2] < b[1] * a[2]
RLe(a, b) == a[1] * b[2] <= b[1] * a[2]
RMin(a, b) == IF RLt(b, a) THEN b ELSE a
RMax(a, b) == IF RLt(a, b) THEN b ELSE a

(***************************************************************************)
(* Configuration (module-level names of main.py, read from the             *)
(* environment once at import).  WINDOW_SEC is run with the value 40 of    *)
(* the documented scenarios instead of the default 300; the others have    *)
(* their defaults.                                                         *)
(***************************************************************************)
SAMPLE_INTERVAL_SEC == 10
WINDOW_SEC == 40
COOLDOWN_SEC == 60
MIN_MOVE_PCT == Rat(10, 100)
MAX_ZIGZAG_RATIO == Rat(65, 100)
\* time.sleep(20) of the two except clauses
RETRY_SEC == 20

\* Python's None (last_signal before any alert, the verdict "no signal")
None == "None"

(***************************************************************************)
(* Bounds of the model                                                     *)
(***************************************************************************)
\* wall-clock readings are the multiples of ClockStep up to ClockStep * MaxTick
ClockStep == 20
MaxTick == 6
\* the window is explored up to this many samples
MaxPoints == 3
\* length of the recorded tick history
MaxHist == 4
\* longest price list handed to a helper called on its own
MaxLen == 3

(***************************************************************************)
(* Pure helpers of main.py                                                 *)
(***************************************************************************)
\* pct_change dividing by b, the new price, for a, the old one
pct_change_by_end(a, b) ==
    IF b = Zero THEN Zero
    ELSE RMul(RDiv(RSub(b, a), b), Rat(100, 1))

pct_change(a, b) ==
    IF a = Zero THEN Zero
    ELSE RMul(RDiv(RSub(b, a), a), Rat(100, 1))

RECURSIVE StepSum(_, _)
\* the loop "for i in range(1, len(prices)): steps += abs(prices[i] - prices[i-1])",
\* from 1-based index i on
StepSum(prices, i) ==
    IF i > Len(prices) THEN Zero
    ELSE RAdd(RAbs(RSub(prices[i], prices[i - 1])), StepSum(prices, i + 1))

\* zigzag_ratio with the abs() of line 80 forgotten: the signed steps sum up
\* to the net move
zigzag_ratio_signed(prices) ==
    IF Len(prices) < 3 THEN Zero
    ELSE LET steps == RSub(prices[Len(prices)], prices[1])
             net == RAbs(RSub(prices[Len(prices)], prices[1]))
         IN  IF net = Zero THEN One
             ELSE LET raw == RDiv(steps, net)
                  IN  RMin(One, RMax(Zero, RDiv(RSub(raw, One), Rat(4, 1))))

\* zigzag_ratio with the min(1.0, ...) of line 88 left out
zigzag_ratio_unclamped(prices) ==
    IF Len(prices) < 3 THEN Zero
    ELSE LET steps == StepSum(prices, 2)
             net == RAbs(RSub(prices[Len(prices)], prices[1]))
         IN  IF net = Zero THEN One
             ELSE LET raw == RDiv(steps, net)
                  IN  RMax(Zero, RDiv(RSub(raw, One), Rat(4, 1)))

zigzag_ratio(prices) ==
    IF Len(prices) < 3 THEN Zero
    ELSE LET steps == StepSum(prices, 2)
             net == RAbs(RSub(prices[Len(prices)], prices[1]))
         IN  IF net = Zero THEN One
             ELSE LET raw == RDiv(steps, net)
                  IN  RMin(One, RMax(Zero, RDiv(RSub(raw, One), Rat(4, 1))))

\* decide_signal with the noise test before the move test and "and" for
\* the two early returns: None only when both tests fail
Classify_both(prices, min_move_pct, max_zigzag_ratio) ==
    IF Len(prices) < 2 THEN <<None, Zero, Zero>>
    ELSE LET move == pct_change(prices[1], prices[Len(prices)])
             zz == zigzag_ratio(prices)
         IN  IF RLt(RAbs(move), min_move_pct) /\ RLt(max_zigzag_ratio, zz)
             THEN <<None, move, zz>>
             ELSE <<(IF RLt(Zero, move) THEN "UP" ELSE "DOWN"), move, zz>>

\* decide_signal with "move >= 0" for "move > 0" in line 111
Classify_ge(prices, min_move_pct, max_zigzag_ratio) ==
    IF Len(prices) < 2 THEN <<None, Zero, Zero>>
    ELSE LET move == pct_change(prices[1], prices[Len(prices)])
             zz == zigzag_ratio(prices)
         IN  IF RLt(RAbs(move), min_move_pct) THEN <<None, move, zz>>
             ELSE IF RLt(max_zigzag_ratio, zz) THEN <<None, move, zz>>
             ELSE <<(IF RLe(Zero, move) THEN "UP" ELSE "DOWN"), move, zz>>

\* the body of decide_signal, the two globals it reads being parameters;
\* returns <<signal, move_pct, zigzag>>
Classify(prices, min_move_pct, max_zigzag_ratio) ==
    IF Len(prices) < 2 THEN <<None, Zero, Zero>>
    ELSE LET start == prices[1]
             end == prices[Len(prices)]
             move == pct_change(start, end)
             zz == zigzag_ratio(prices)
         IN  IF RLt(RAbs(move), min_move_pct) THEN <<None, move, zz>>
             ELSE IF RLt(max_zigzag_ratio, zz) THEN <<None, move, zz>>
             ELSE <<(IF RLt(Zero, move) THEN "UP" ELSE "DOWN"), move, zz>>

\* decide_signal as main() calls it, with the globals of the configuration
decide_signal(prices) == Classify(prices, MIN_MOVE_PCT, MAX_ZIGZAG_RATIO)

\* the eviction with "if" for "while": at most one sample is dropped
Evict_once(pts, t) ==
    IF pts # <<>> /\ (t - pts[1][1]) > WINDOW_SEC
    THEN Tail(pts)
    ELSE pts

RECURSIVE Evict(_, _)
\* "while points and (now - points[0][0]) > WINDOW_SEC: points.popleft()"
Evict(pts, t) ==
    IF pts # <<>> /\ (t - pts[1][1]) > WINDOW_SEC
    THEN Evict(Tail(pts), t)
    ELSE pts

\* "prices = [p for _, p in points]"
PricesOf(pts) == [i \in 1..Len(pts) |-> pts[i][2]]

\* the gate without the "changed" test
ShouldAlert_cooldown_only(sig, t, ts, last) ==
    /\ sig # None
    /\ (t - ts) >= COOLDOWN_SEC

\* the gate with "cooldown_ok or changed" for "cooldown_ok and changed"
ShouldAlert_either(sig, t, ts, last) ==
    /\ sig # None
    /\ ((t - ts) >= COOLDOWN_SEC \/ sig # last)
\* lines 140-144: "if signal:" with cooldown_ok and changed
ShouldAlert(sig, t, ts, last) ==
    LET cooldown_ok == (t - ts) >= COOLDOWN_SEC
        changed == (sig # last)
    IN  sig # None /\ cooldown_ok /\ changed

\* the gate with the reset-on-None policy: a tick without a signal forgets
\* the last emitted verdict
GateAfter_reset(emit, sig, t, ts, last) ==
    IF emit THEN <<t, sig>>
    ELSE IF sig = None THEN <<ts, None>>
    ELSE <<ts, last>>

\* lines 153-154: <<last_alert_ts, last_signal>> after the gate, which are
\* assigned only inside "if cooldown_ok and changed:"
GateAfter(emit, sig, t, ts, last) ==
    IF emit THEN <<t, sig>> ELSE <<ts, last>>

\* tg_send without its try/except: a failed delivery raises
tg_send_raises(delivery) == IF delivery = "failed" THEN "raised" ELSE "returned"

\* tg_send: what the caller sees for each fate of the HTTP POST.  The POST
\* and raise_for_status sit in try/except Exception, so a failed delivery
\* returns like a successful one.
tg_send(delivery) == "returned"

(***************************************************************************)
(* Inputs                                                                  *)
(***************************************************************************)
Times == {ClockStep * k : k \in 0..MaxTick}
Prices == {Rat(100, 1), Rat(101, 1)}
\* fate of the HTTP POST inside tg_send
Deliveries == {"ok", "failed"}

RECURSIVE Pow10(_)
Pow10(k) == IF k = 0 THEN 1 ELSE 10 * Pow10(k - 1)

\* the number a format spec ".kf" prints for r: r rounded to k decimals, a
\* tie going to the even digit (the floats of the code that stand for a
\* decimal tie are rounded by their binary value instead)
Fmt(r, k) ==
    LET scaled == r[1] * Pow10(k)
        q == scaled \div r[2]
        rem == scaled % r[2]
        up == 2 * rem > r[2] \/ (2 * rem = r[2] /\ q % 2 = 1)
    IN  Rat(IF up THEN q + 1 ELSE q, Pow10(k))

\* the alert text with the move and the zigzag values in each other's place
SignalMsg_swapped(sig, p, move, zz, delivery) ==
    [kind |-> "signal", signal |-> sig, price |-> Fmt(p, 2),
     move |-> Fmt(zz, 3), zz |-> Fmt(move, 2),
     delivered |-> (delivery = "ok")]

\* lines 145-151: the alert text: signal, price as .2f, move as +.3f,
\* zigzag as .2f
SignalMsg(sig, p, move, zz, delivery) ==
    [kind |-> "signal", signal |-> sig, price |-> Fmt(p, 2),
     move |-> Fmt(move, 3), zz |-> Fmt(zz, 2),
     delivered |-> (delivery = "ok")]
NoteMsg(kind, delivery) ==
    [kind |-> kind, signal |-> None, price |-> Zero, move |-> Zero, zz |-> Zero,
     delivered |-> (delivery = "ok")]

(***************************************************************************)
(* main()                                                                  *)
(***************************************************************************)
InitMain ==
    /\ pc = "start"
    /\ points = <<>>
    /\ last_alert_ts = 0
    /\ last_signal = None
    /\ now = 0
    /\ price = Zero
    /\ signal = None
    /\ sent = <<>>
    /\ started = 0
    /\ alerts = <<>>
    /\ hist = <<>>

\* no helper is called on its own
NoCall ==
    /\ args = <<>>
    /\ ret = <<>>

Init ==
    /\ InitMain
    /\ NoCall
    /\ clock \in Times
    /\ recording = FALSE

\* line 117: the startup message, then the three locals are initialised
Startup(delivery) ==
    /\ pc = "start"
    /\ sent' = <<NoteMsg("startup", delivery)>>
    /\ started' = started + 1
    /\ pc' = IF tg_send(delivery) = "returned" THEN "fetch" ELSE "crashed"
    /\ points' = <<>>
    /\ last_alert_ts' = 0
    /\ last_signal' = None
    /\ UNCHANGED <<clock, now, price, signal, alerts, hist, recording, args, ret>>

\* the record kept of a successful tick
HistAdd(t, p, sig, emitted) ==
    IF recording /\ Len(hist) < MaxHist
    THEN /\ hist' = Append(hist, [now |-> t, price |-> p, signal |-> sig,
                                  emitted |-> emitted])
         /\ recording' = TRUE
    ELSE /\ hist' = <<>>
         /\ recording' = FALSE

\* lines 125-156: a tick whose fetch returns price p
TickOk(p, delivery) ==
    /\ pc = "fetch"
    /\ LET t == clock
           pts == Evict(Append(points, <<t, p>>), t)
           res == decide_signal(PricesOf(pts))
           sig == res[1]
           emit == ShouldAlert(sig, t, last_alert_ts, last_signal)
           gate == GateAfter(emit, sig, t, last_alert_ts, last_signal)
           msg == SignalMsg(sig, p, res[2], res[3], delivery)
       IN  /\ now' = t
           /\ price' = p
           /\ points' = pts
           /\ signal' = sig
           /\ IF ~emit
              THEN /\ sent' = <<>>
                   /\ pc' = "sleep"
                   /\ last_alert_ts' = gate[1]
                   /\ last_signal' = gate[2]
                   /\ UNCHANGED alerts
              ELSE IF tg_send(delivery) = "returned"
              THEN /\ sent' = <<msg>>
                   /\ last_alert_ts' = gate[1]
                   /\ last_signal' = gate[2]
                   /\ alerts' = Append(alerts, <<t, sig>>)
                   /\ pc' = "sleep"
              ELSE \* an exception out of tg_send lands in "except Exception"
                   \* (line 163), whose own tg_send then raises out of main()
                   /\ sent' = <<msg, NoteMsg("error", delivery)>>
                   /\ pc' = "crashed"
                   /\ UNCHANGED <<last_alert_ts, last_signal, alerts>>
           /\ HistAdd(t, p, sig, emit)
    /\ UNCHANGED <<clock, started, args, ret>>

\* an except clause that also drops the window
Handler_clears(kind, delivery) ==
    /\ sent' = <<NoteMsg(kind, delivery)>>
    /\ pc' = IF tg_send(delivery) = "returned" THEN "backoff" ELSE "crashed"
    /\ points' = <<>>
    /\ hist' = <<>>
    /\ recording' = FALSE
    /\ UNCHANGED <<clock, last_alert_ts, last_signal, now, price, signal,
                   started, alerts, args, ret>>

\* the body of an except clause: one message, then time.sleep(20)
Handler(kind, delivery) ==
    /\ sent' = <<NoteMsg(kind, delivery)>>
    /\ pc' = IF tg_send(delivery) = "returned" THEN "backoff" ELSE "crashed"
    /\ hist' = <<>>
    /\ recording' = FALSE
    /\ UNCHANGED <<clock, points, last_alert_ts, last_signal, now, price, signal,
                   started, alerts, args, ret>>

\* lines 125, 158-161: fetch_btc_price_usd raises requests.HTTPError
TickHTTPError(delivery) ==
    /\ pc = "fetch"
    /\ Handler("http_error", delivery)

\* lines 125, 163-165: fetch_btc_price_usd raises any other exception
TickException(delivery) ==
    /\ pc = "fetch"
    /\ Handler("error", delivery)

\* a loop that calls main() again after each sleep
Sleep_restart(t) ==
    /\ pc = "sleep"
    /\ pc' = "start"
    /\ clock' = t
    /\ sent' = <<>>
    /\ UNCHANGED <<points, last_alert_ts, last_signal, now, price, signal,
                   started, alerts, hist, recording, args, ret>>

\* line 156: time.sleep(SAMPLE_INTERVAL_SEC); the wall clock reads t afterwards
Sleep(t) ==
    /\ pc = "sleep"
    /\ pc' = "fetch"
    /\ clock' = t
    /\ sent' = <<>>
    /\ UNCHANGED <<points, last_alert_ts, last_signal, now, price, signal,
                   started, alerts, hist, recording, args, ret>>

\* an except clause that ends the loop after its wait
Backoff_exit(t) ==
    /\ pc = "backoff"
    /\ pc' = "crashed"
    /\ clock' = t
    /\ sent' = <<>>
    /\ UNCHANGED <<points, last_alert_ts, last_signal, now, price, signal,
                   started, alerts, hist, recording, args, ret>>

\* lines 161, 165: time.sleep(20); the wall clock reads t afterwards
Backoff(t) ==
    /\ pc = "backoff"
    /\ pc' = "fetch"
    /\ clock' = t
    /\ sent' = <<>>
    /\ UNCHANGED <<points, last_alert_ts, last_signal, now, price, signal,
                   started, alerts, hist, recording, args, ret>>

(***************************************************************************)
(* Spec: the wall clock is whatever the host says (it can be set back or   *)
(* forward between two readings).                                          *)
(***************************************************************************)
Next ==
    \/ \E d \in Deliveries : Startup(d)
    \/ \E d \in Deliveries : TickHTTPError(d)
    \/ \E d \in Deliveries : TickException(d)
    \/ \E p \in Prices, d \in Deliveries : Len(points) < MaxPoints /\ TickOk(p, d)
    \/ \E t \in Times : Sleep(t)
    \/ \E t \in Times : Backoff(t)

Spec == Init /\ [][Next]_vars

(***************************************************************************)
(* FairSpec: the same loop, scheduled fairly: it is the only thread and    *)
(* every call it makes returns or raises (both HTTP calls have timeout=15, *)
(* the sleeps are finite).  The clock is read at the multiples of          *)
(* COOLDOWN_SEC, still in any order.                                       *)
(***************************************************************************)
FairTimes == {0, COOLDOWN_SEC, 2 * COOLDOWN_SEC}

FairInit ==
    /\ InitMain
    /\ NoCall
    /\ clock \in FairTimes
    /\ recording = FALSE

FairNext ==
    \/ \E d \in Deliveries : Startup(d)
    \/ \E d \in Deliveries : TickHTTPError(d)
    \/ \E d \in Deliveries : TickException(d)
    \/ \E p \in Prices, d \in Deliveries : Len(points) < MaxPoints /\ TickOk(p, d)
    \/ \E t \in FairTimes : Sleep(t)
    \/ \E t \in FairTimes : Backoff(t)

FairSpec == FairInit /\ [][FairNext]_vars /\ WF_vars(FairNext)

(***************************************************************************)
(* SteadySpec: the wall clock is never adjusted, so a sleep of n seconds   *)
(* moves the reading by exactly n.  The ticks since the start are          *)
(* recorded in hist, and the price source returns the prices of the two    *)
(* documented scenarios in any order.  A run is followed for its first     *)
(* MaxHist ticks, or up to its first failed fetch.                         *)
(***************************************************************************)
TrendScenario == <<Rat(100, 1), Rat(10005, 100), Rat(1002, 10), Rat(1005, 10)>>
ChoppyScenario == <<Rat(100, 1), Rat(101, 1), Rat(995, 10), Rat(1003, 10)>>
ScenarioPrices ==
    {TrendScenario[i] : i \in 1..Len(TrendScenario)}
        \cup {ChoppyScenario[i] : i \in 1..Len(ChoppyScenario)}

SteadyInit ==
    /\ InitMain
    /\ NoCall
    /\ clock \in Times
    /\ recording = TRUE

SteadyNext ==
    \/ \E d \in Deliveries : Startup(d)
    \/ \E p \in ScenarioPrices, d \in Deliveries :
          recording /\ Len(hist) < MaxHist /\ TickOk(p, d)
    \/ \E d \in Deliveries : recording /\ TickHTTPError(d)
    \/ \E d \in Deliveries : recording /\ TickException(d)
    \/ Sleep(clock + SAMPLE_INTERVAL_SEC)
    \/ Backoff(clock + RETRY_SEC)

SteadySpec == SteadyInit /\ [][SteadyNext]_vars

(***************************************************************************)
(* RetrySpec: the steady wall clock again, now through any mix of          *)
(* successful and failed fetches, up to the reading RetryHorizon.  Each    *)
(* sleep is shorter than the window, so here more than WINDOW_SEC between  *)
(* two successful ticks means a run of failed fetches in between.          *)
(***************************************************************************)
RetryHorizon == ClockStep * MaxTick

RetryInit ==
    /\ InitMain
    /\ NoCall
    /\ clock \in Times
    /\ recording = FALSE

RetryNext ==
    \/ \E d \in Deliveries : Startup(d)
    \/ \E d \in Deliveries : TickHTTPError(d)
    \/ \E d \in Deliveries : TickException(d)
    \/ \E p \in Prices, d \in Deliveries : TickOk(p, d)
    \/ clock + SAMPLE_INTERVAL_SEC <= RetryHorizon
          /\ Sleep(clock + SAMPLE_INTERVAL_SEC)
    \/ clock + RETRY_SEC <= RetryHorizon /\ Backoff(clock + RETRY_SEC)

RetrySpec == RetryInit /\ [][RetryNext]_vars

(***************************************************************************)
(* PureSpec: decide_signal and zigzag_ratio called on their own, on every  *)
(* price list of up to MaxLen prices and with both thresholds at their     *)
(* defaults and at an extreme (MIN_MOVE_PCT = 0, MAX_ZIGZAG_RATIO = 1).    *)
(* main() does not run.                                                    *)
(***************************************************************************)
PurePrices == {Zero, Rat(100, 1), Rat(10005, 100), Rat(101, 1), Rat(1028, 10)}

RECURSIVE SeqsUpTo(_, _)
\* the sequences over S of length <= n
SeqsUpTo(S, n) ==
    IF n = 0 THEN {<<>>}
    ELSE LET shorter == SeqsUpTo(S, n - 1)
         IN  shorter \cup {Append(q, x) : q \in shorter, x \in S}

PureArgs ==
    [prices : SeqsUpTo(PurePrices, MaxLen),
     min_move : {Zero, MIN_MOVE_PCT},
     max_zz : {MAX_ZIGZAG_RATIO, One}]

PureInit ==
    /\ InitMain
    /\ clock = 0
    /\ recording = FALSE
    /\ args \in PureArgs
    /\ ret = <<>>

CallDecideSignal ==
    /\ ret' = [fn |-> "decide_signal",
               val |-> Classify(args.prices, args.min_move, args.max_zz)]
    /\ UNCHANGED <<pc, clock, points, last_alert_ts, last_signal, now, price,
                   signal, sent, started, alerts, hist, recording, args>>

CallZigzagRatio ==
    /\ ret' = [fn |-> "zigzag_ratio", val |-> zigzag_ratio(args.prices)]
    /\ UNCHANGED <<pc, clock, points, last_alert_ts, last_signal, now, price,
                   signal, sent, started, alerts, hist, recording, args>>

PureNext ==
    \/ CallDecideSignal
    \/ CallZigzagRatio

PureSpec == PureInit /\ [][PureNext]_vars

(***************************************************************************)
(* Vocabulary of the properties                                            *)
(***************************************************************************)
\* decide_signal, resp. zigzag_ratio, has returned ret.val for args
Decided == ret # <<>> /\ ret.fn = "decide_signal"
Scored == ret # <<>> /\ ret.fn = "zigzag_ratio"
\* the first and the last price of the list called with (it has one)
FirstPrice == args.prices[1]
LastPrice == args.prices[Len(args.prices)]
\* a step that is a successful tick (fetch, push, score, gate, then sleep)
OkTick == pc = "fetch" /\ pc' = "sleep"
\* a step that is a tick whose fetch failed
FailedFetch ==
    /\ pc = "fetch"
    /\ sent' # <<>>
    /\ sent'[1].kind \in {"http_error", "error"}
\* a step that hands a signal message to the notifier
Alerted == Len(alerts') = Len(alerts) + 1

\* hist is the run of scenario sc: its prices, one per tick, 10 s apart,
\* from the empty window and the idle gate of the start
Played(sc) ==
    /\ recording
    /\ Len(hist) = Len(sc)
    /\ \A i \in 1..Len(sc) : hist[i].price = sc[i]
    /\ \A i \in 1..(Len(sc) - 1) : hist[i + 1].now - hist[i].now = 10

C2_CooldownGates ==
    [][/\ \A i, j \in 1..Len(alerts') :
            i < j => Abs(alerts'[j][1] - alerts'[i][1]) >= COOLDOWN_SEC
       /\ (/\ OkTick
           /\ last_signal # None
           /\ signal' \notin {None, last_signal}
           /\ now' - last_alert_ts < COOLDOWN_SEC)
          => (sent' = <<>> /\ UNCHANGED <<last_signal, last_alert_ts, alerts>>)]_vars

\* a verdict changed from UP to DOWN (or back) 20 s after an alert, and was dropped
C2_Witness ==
    /\ pc = "sleep"
    /\ alerts # <<>>
    /\ signal \notin {None, last_signal}
    /\ now - last_alert_ts < COOLDOWN_SEC
    /\ now > last_alert_ts
    /\ sent = <<>>

C4_NoStaleSample ==
    pc = "sleep" => \A i \in 1..Len(points) : now - points[i][1] <= WINDOW_SEC

(***************************************************************************)
(* C5.  The window is in time order: the timestamps of adjacent samples    *)
(* are non-decreasing, whatever the clock reads.  The code fails it: a     *)
(* reading lower than the last pushed one is appended as it is.            *)
(***************************************************************************)
C5_TimeOrdered ==
    \A i \in 1..(Len(points) - 1) : points[i][1] <= points[i + 1][1]

(***************************************************************************)
(* C6.  A tick whose fetch fails leaves the window and both gate fields    *)
(* as they were.                                                           *)
(***************************************************************************)
C6_FetchFailureFrame ==
    [][FailedFetch => UNCHANGED <<points, last_signal, last_alert_ts>>]_vars

\* a fetch failed with samples in the window and an alert behind
C6_Witness ==
    /\ pc = "backoff"
    /\ sent # <<>>
    /\ sent[1].kind \in {"http_error", "error"}
    /\ Len(points) >= 2
    /\ last_signal # None

(***************************************************************************)
(* C7.  A delivery failure inside tg_send does not reach the loop: the     *)
(* step sends that one message and goes on (no crash, no error handler),   *)
(* and a signal tick ends with the window and the gate it would have had   *)
(* with the delivery done.                                                 *)
(***************************************************************************)
C7_DeliveryFailureSwallowed ==
    [][(sent' # <<>> /\ ~sent'[1].delivered) =>
          /\ Len(sent') = 1
          /\ pc' # "crashed"
          /\ sent'[1].kind = "startup" => pc' = "fetch"
          /\ sent'[1].kind = "signal" =>
                /\ pc' = "sleep"
                /\ last_signal' = signal'
                /\ last_alert_ts' = now'
                /\ points' = Evict(Append(points, <<now', price'>>), now')
                /\ alerts' = Append(alerts, <<now', signal'>>)]_vars

\* a signal message whose delivery failed, the loop being on its way to sleep
C7_Witness ==
    /\ pc = "sleep"
    /\ sent # <<>>
    /\ sent[1].kind = "signal"
    /\ ~sent[1].delivered
    /\ last_signal = signal

(***************************************************************************)
(* C8.  The loop has no terminal state.  A failed fetch sends exactly one  *)
(* operator message and goes to the backoff wait, a successful tick goes   *)
(* to the sleep, and both waits lead to the next fetch; with the loop      *)
(* scheduled fairly a fetch is attempted again and again, for ever.        *)
(***************************************************************************)
C8_RunsForever ==
    /\ [][/\ pc' # "crashed"
          /\ FailedFetch => (Len(sent') = 1 /\ pc' = "backoff")
          /\ (pc = "fetch" /\ ~FailedFetch) => pc' = "sleep"
          /\ pc = "backoff" => pc' = "fetch"
          /\ pc = "sleep" => pc' = "fetch"]_vars
    /\ []<>(pc = "fetch")
    /\ []<>(pc \in {"sleep", "backoff"})

\* the first fetch failed, the backoff wait is over and the next fetch is due
C8_Witness ==
    /\ pc = "fetch"
    /\ started = 1
    /\ points = <<>>
    /\ sent = <<>>

C10_ChoppyScenario ==
    Played(ChoppyScenario) =>
        /\ RLt(MAX_ZIGZAG_RATIO, decide_signal(PricesOf(points))[3])
        /\ signal = None
        /\ alerts = <<>>

(***************************************************************************)
(* C10 amended.  Choppy scenario: at the last tick the noise score is      *)
(* above the ceiling and the verdict is None, and the first, third and     *)
(* fourth tick emit nothing; the second tick, whose window <<100, 101>> is *)
(* too short for a noise score, has verdict UP, and emits it exactly when  *)
(* its clock reading is at least COOLDOWN_SEC.                             *)
(***************************************************************************)
C10_ChoppyAmended ==
    Played(ChoppyScenario) =>
        /\ RLt(MAX_ZIGZAG_RATIO, decide_signal(PricesOf(points))[3])
        /\ signal = None
        /\ [i \in 1..4 |-> hist[i].signal] = <<None, "UP", None, None>>
        /\ \A i \in {1, 3, 4} : ~hist[i].emitted
        /\ hist[2].emitted <=> hist[2].now >= COOLDOWN_SEC
        /\ alerts = IF hist[2].emitted THEN <<<<hist[2].now, "UP">>>> ELSE <<>>

\* the choppy scenario played to its end, with the UP of its second tick sent
C10_Witness ==
    /\ Played(ChoppyScenario)
    /\ Len(alerts) = 1

(***************************************************************************)
(* C11.  decide_signal returns None for every price list whose absolute    *)
(* net move is below the minimum, whatever the noise score, and for every  *)
(* price list whose noise score is above the ceiling, however large the    *)
(* move.                                                                   *)
(***************************************************************************)
C11_NoneBelowMoveOrAboveNoise ==
    (Decided /\ Len(args.prices) >= 2) =>
        LET move == pct_change(FirstPrice, LastPrice)
            zz == zigzag_ratio(args.prices)
        IN  /\ RLt(RAbs(move), args.min_move) => ret.val[1] = None
            /\ RLt(args.max_zz, zz) => ret.val[1] = None

\* <<100, 102.8, 101>>: move 1 %, noise 0.9 over the ceiling 0.65, verdict None
C11_Witness ==
    /\ Decided
    /\ args.prices = <<Rat(100, 1), Rat(1028, 10), Rat(101, 1)>>
    /\ args.max_zz = MAX_ZIGZAG_RATIO
    /\ ret.val = <<None, One, Rat(9, 10)>>

(***************************************************************************)
(* C12.  decide_signal returns None for fewer than 2 prices; for 2 or more *)
(* prices that pass the move test and the noise test it returns UP exactly *)
(* when the net move is positive and DOWN in every other case, a net move  *)
(* of 0 with MIN_MOVE_PCT = 0 included.                                    *)
(***************************************************************************)
C12_Direction ==
    Decided =>
        IF Len(args.prices) < 2 THEN ret.val[1] = None
        ELSE LET move == pct_change(FirstPrice, LastPrice)
                 zz == zigzag_ratio(args.prices)
                 passes == /\ ~RLt(RAbs(move), args.min_move)
                           /\ ~RLt(args.max_zz, zz)
             IN  passes =>
                    /\ ret.val[1] \in {"UP", "DOWN"}
                    /\ ret.val[1] = "UP" <=> RLt(Zero, move)

\* a flat pair with MIN_MOVE_PCT = 0: net move 0, verdict DOWN
C12_Witness ==
    /\ Decided
    /\ Len(args.prices) = 2
    /\ FirstPrice = LastPrice
    /\ FirstPrice # Zero
    /\ args.min_move = Zero
    /\ ret.val[1] = "DOWN"

(***************************************************************************)
(* C13.  The net move decide_signal reports is 0 for fewer than 2 prices   *)
(* and for a first price of 0; otherwise it is                             *)
(* (last - first) / first * 100, m say, stated here without the division:  *)
(* m * first = (last - first) * 100.                                       *)
(***************************************************************************)
C13_NetMove ==
    Decided =>
        LET m == ret.val[2]
        IN  IF Len(args.prices) < 2 \/ FirstPrice = Zero THEN m = Zero
            ELSE LET f == FirstPrice
                     l == LastPrice
                 IN  m[1] * f[1] * (f[2] * l[2])
                        = (l[1] * f[2] - f[1] * l[2]) * 100 * (m[2] * f[2])

\* <<100, 100.05>>: a net move of 0.05 %
C13_Witness ==
    /\ Decided
    /\ args.prices = <<Rat(100, 1), Rat(10005, 100)>>
    /\ ret.val[2] = Rat(5, 100)

(***************************************************************************)
(* C14 as stated.  zigzag_ratio is 1 whenever the net displacement is 0    *)
(* and the path has at least one step (2 prices or more); otherwise it is  *)
(* in [0, 1], namely clamp((steps / net - 1) / 4, 0, 1).                   *)
(***************************************************************************)
C14_PathRatio ==
    Scored =>
        LET n == Len(args.prices)
            net == IF n = 0 THEN Zero ELSE RAbs(RSub(LastPrice, FirstPrice))
        IN  IF n >= 2 /\ net = Zero THEN ret.val = One
            ELSE /\ RLe(Zero, ret.val) /\ RLe(ret.val, One)
                 /\ net # Zero =>
                       ret.val = RMin(One, RMax(Zero,
                           RDiv(RSub(RDiv(StepSum(args.prices, 2), net), One),
                                Rat(4, 1))))

(***************************************************************************)
(* C14 amended.  zigzag_ratio is 0 for fewer than 3 prices; for 3 or more  *)
(* it is 1 when the net displacement is 0 and otherwise                    *)
(* clamp((steps / net - 1) / 4, 0, 1); it is always in [0, 1].             *)
(***************************************************************************)
C14_PathRatioAmended ==
    Scored =>
        LET n == Len(args.prices)
            net == IF n = 0 THEN Zero ELSE RAbs(RSub(LastPrice, FirstPrice))
        IN  /\ RLe(Zero, ret.val) /\ RLe(ret.val, One)
            /\ n < 3 => ret.val = Zero
            /\ (n >= 3 /\ net = Zero) => ret.val = One
            /\ (n >= 3 /\ net # Zero) =>
                  ret.val = RMin(One, RMax(Zero,
                      RDiv(RSub(RDiv(StepSum(args.prices, 2), net), One),
                           Rat(4, 1))))

\* <<100, 101, 100.05>>: steps 1.95 over a net 0.05, a raw ratio of 39, score 1
C14_Witness ==
    /\ Scored
    /\ args.prices = <<Rat(100, 1), Rat(101, 1), Rat(10005, 100)>>
    /\ ret.val = One

(***************************************************************************)
(* C15.  An emitting tick hands the notifier exactly one message, built    *)
(* from the tick's verdict, price, net move and noise score, and leaves    *)
(* last_signal at that verdict and last_alert_ts at the tick's now.  So    *)
(* in every state last_signal is None exactly when no signal has been      *)
(* emitted, and otherwise the gate holds the time and the verdict of the   *)
(* latest emission.                                                        *)
(***************************************************************************)
GateMatches ==
    IF alerts = <<>> THEN last_signal = None
    ELSE /\ last_signal # None
         /\ <<last_alert_ts, last_signal>> = alerts[Len(alerts)]

C15_EmissionSetsGate ==
    /\ GateMatches
    /\ [][/\ GateMatches'
          /\ (OkTick /\ Alerted) =>
                LET ps == PricesOf(points')
                IN  /\ Len(sent') = 1
                    /\ sent'[1].kind = "signal"
                    /\ sent'[1].signal = signal'
                    /\ sent'[1].price = Fmt(price', 2)
                    /\ sent'[1].move = Fmt(pct_change(ps[1], ps[Len(ps)]), 3)
                    /\ sent'[1].zz = Fmt(zigzag_ratio(ps), 2)
                    /\ last_signal' = signal'
                    /\ last_alert_ts' = now'
                    /\ alerts' = Append(alerts, <<now', signal'>>)]_vars

\* the second alert of a run has just been sent
C15_Witness ==
    /\ pc = "sleep"
    /\ Len(alerts) = 2
    /\ sent # <<>>
    /\ sent[1].kind = "signal"
    /\ sent[1].signal = last_signal

(***************************************************************************)
(* C16.  A successful tick that emits nothing (verdict None, cooldown not  *)
(* elapsed, or verdict equal to last_signal) leaves last_alert_ts and      *)
(* last_signal as they were; a step that changes either of them is an      *)
(* emitting tick.                                                          *)
(***************************************************************************)
C16_GateFrame ==
    [][/\ (OkTick /\ ~Alerted) => UNCHANGED <<last_alert_ts, last_signal>>
       /\ (<<last_alert_ts, last_signal>>' # <<last_alert_ts, last_signal>>)
             => (OkTick /\ Alerted)]_vars

\* a tick without a verdict, later than an alert, has kept the gate
C16_Witness ==
    /\ pc = "sleep"
    /\ signal = None
    /\ sent = <<>>
    /\ last_signal # None
    /\ now > last_alert_ts

(***************************************************************************)
(* C17.  The startup notification is sent exactly once per run: by the     *)
(* first step, before any price is fetched and before any signal or error  *)
(* notification, and by no later step.                                     *)
(***************************************************************************)
StartupSent == \E i \in DOMAIN sent : sent[i].kind = "startup"

C17_StartupOnceFirst ==
    /\ pc = "start" /\ started = 0 /\ sent = <<>> /\ points = <<>>
    /\ [][/\ started' = 1
          /\ (started' # started) <=> (pc = "start")
          /\ StartupSent' <=> (pc = "start")
          /\ (pc = "start") => (sent' = <<NoteMsg("startup", "ok")>>
                                 \/ sent' = <<NoteMsg("startup", "failed")>>)
          /\ (OkTick \/ FailedFetch \/ Alerted) => (started = 1)
          /\ pc' # "start"]_vars

\* a signal and then an error notification have followed the startup one
C17_Witness ==
    /\ started = 1
    /\ pc = "backoff"
    /\ alerts # <<>>
    /\ sent # <<>>
    /\ sent[1].kind \in {"http_error", "error"}

(***************************************************************************)
(* C18.  A tick without a verdict does not reset the gate: any two         *)
(* consecutive signal notifications of a run carry different verdicts, so  *)
(* once UP has been emitted no further UP is emitted before a DOWN,        *)
(* whatever number of ticks without a verdict and whatever time lie in     *)
(* between.                                                                *)
(***************************************************************************)
C18_VerdictsAlternate ==
    /\ \A i \in 1..(Len(alerts) - 1) : alerts[i][2] # alerts[i + 1][2]
    /\ \A i \in 1..Len(alerts) : alerts[i][2] \in {"UP", "DOWN"}

\* the verdict of the last alert comes up again a whole cooldown later, from
\* a window that holds no sample of that alert's tick, and nothing is sent
C18_Witness ==
    /\ pc = "sleep"
    /\ signal # None
    /\ signal = last_signal
    /\ now - last_alert_ts >= COOLDOWN_SEC
    /\ Len(points) = 2
    /\ points[1][1] > last_alert_ts
    /\ sent = <<>>

(***************************************************************************)
(* C19.  With a steady clock, a successful tick that comes more than       *)
(* WINDOW_SEC after the one before it (a run of failed fetches lies in     *)
(* between) evicts every older sample: the window holds the new sample     *)
(* only, the verdict is None and no signal notification is sent.  After    *)
(* every successful tick the window is non-empty and its last sample is    *)
(* the one just fetched.                                                   *)
(***************************************************************************)
C19_WindowAfterOutage ==
    [][OkTick =>
         /\ points' # <<>>
         /\ points'[Len(points')] = <<now', price'>>
         /\ now' = clock
         /\ (points # <<>> /\ clock - now > WINDOW_SEC) =>
               /\ points' = <<<<now', price'>>>>
               /\ signal' = None
               /\ ~Alerted
               /\ sent' = <<>>]_vars

\* the tick after an outage that followed an alert: one sample, no verdict
C19_Witness ==
    /\ pc = "sleep"
    /\ alerts # <<>>
    /\ points = <<<<now, price>>>>
    /\ now - last_alert_ts > WINDOW_SEC
    /\ signal = None
    /\ sent = <<>>

====
